---- MODULE Spec2Model ----
(***************************************************************************)
(* Knockout Light (src/main.js): the Electron main process of a screen     *)
(* colour-temperature overlay.  The model covers the process-wide filter   *)
(* state (settings, isFilterActive), the overlay windows and the           *)
(* directives sent to them, the settings window, the tray menu label, and  *)
(* every event handler of the main process.                                *)
(*                                                                         *)
(* Numbers.  JavaScript doubles are modelled by exact or fixed-point       *)
(* integers:                                                               *)
(*   - an opacity is the integer numerator of a fraction over OpacityDen   *)
(*     (65000), in which the formula of updateFilter is exact for integer  *)
(*     temperature and brightness;                                         *)
(*   - Math.log and Math.pow in kelvinToRGB are computed in fixed point    *)
(*     with FP (2^20) units per 1; a channel before rounding is within     *)
(*     about 0.0003 of the double, so the rounded channel is the double's  *)
(*     except where the double lies that close to a half (none of the      *)
(*     temperatures of the model does).                                    *)
(***************************************************************************)
EXTENDS Integers, Sequences, FiniteSets

VARIABLES phase, settings, isFilterActive, displays, overlayWindows,
          openOverlays, mainWindow, trayLabel, emitted, notified, lastError,
          lastOp, pre, hist, kelvinArg, rgbCalls

vars == <<phase, settings, isFilterActive, displays, overlayWindows,
          openOverlays, mainWindow, trayLabel, emitted, notified, lastError,
          lastOp, pre, hist, kelvinArg, rgbCalls>>

-----------------------------------------------------------------------------
(* Bounds of the model *)

\* the largest number of displays attached at once
MaxDisplays == 2

\* the longest sequence of events after start-up that SpecSeq follows
MaxSeq == 2

\* the number of times SpecRGB calls kelvinToRGB on one input
MaxCalls == 2

-----------------------------------------------------------------------------
(* Fixed-point arithmetic standing for the doubles of kelvinToRGB *)

\* units per 1: 2^20
FP == 1048576

\* 2^10, the square root of FP, used to split a product so that it stays
\* within 32 bits
FPHalf == 1024

Abs(x) == IF x < 0 THEN -x ELSE x

Sign(x) == IF x < 0 THEN -1 ELSE 1

Max(a, b) == IF a >= b THEN a ELSE b

Min(a, b) == IF a <= b THEN a ELSE b

\* a * b / FP for fixed-point a and b (the JavaScript `*` on doubles)
MulFP(a, b) ==
    LET x  == Abs(a)
        y  == Abs(b)
        x1 == x \div FPHalf
        x0 == x % FPHalf
        y1 == y \div FPHalf
        y0 == y % FPHalf
        p  == x1 * y1 + (x1 * y0 + x0 * y1) \div FPHalf
                      + (x0 * y0) \div FP
    IN  Sign(a) * Sign(b) * p

\* a / b for fixed-point a and a positive integer b
DivInt(a, b) == Sign(a) * (Abs(a) \div b)

\* the largest k with 2^k <= n, for an integer n >= 1
RECURSIVE Log2Floor(_)
Log2Floor(n) == IF n < 2 THEN 0 ELSE 1 + Log2Floor(n \div 2)

RECURSIVE Pow2(_)
Pow2(k) == IF k = 0 THEN 1 ELSE 2 * Pow2(k - 1)

\* ln 2 in fixed point: 0.6931471805599453 * 2^20
Ln2FP == 726817

\* sum of y^(2i+1) / (2i+1) for i = n .. LnTerms, where pw = y^(2n+1)
LnTerms == 9

RECURSIVE AtanhSeries(_, _, _)
AtanhSeries(pw, ysq, n) ==
    IF n > LnTerms \/ pw = 0 THEN 0
    ELSE DivInt(pw, 2 * n + 1) + AtanhSeries(MulFP(pw, ysq), ysq, n + 1)

\* a / d in fixed point to `bits` binary places, for integers 0 <= a < d
RECURSIVE Fraction(_, _, _)
Fraction(a, d, bits) ==
    IF bits = 0 THEN 0
    ELSE ((2 * a) \div d) * Pow2(bits - 1) + Fraction((2 * a) % d, d, bits - 1)

\* ln(n) in fixed point for an integer n >= 1:
\* n = 2^k * m with 1 <= m < 2, ln n = k ln 2 + 2 atanh((m - 1) / (m + 1))
LnInt(n) ==
    LET k == Log2Floor(n)
        m == IF k <= 20 THEN n * Pow2(20 - k) ELSE n \div Pow2(k - 20)
        y == Fraction(m - FP, m + FP, 20)
    IN  k * Ln2FP + 2 * AtanhSeries(y, MulFP(y, y), 0)

\* Math.log(num / den) for integers num, den >= 1
LnRatio(num, den) == LnInt(num) - LnInt(den)

\* sum of z^i / i! for i = n .. ExpTerms, where term = z^n / n!
ExpTerms == 16

RECURSIVE ExpSeries(_, _, _)
ExpSeries(term, z, n) ==
    IF n > ExpTerms \/ term = 0 THEN 0
    ELSE term + ExpSeries(DivInt(MulFP(term, z), n + 1), z, n + 1)

\* e^z in fixed point, for -2 <= z <= 0
ExpFP(z) == ExpSeries(FP, z, 0)

\* Math.pow(num / den, -e) for a fixed-point exponent e in (0, 1)
\* and num >= den: exp(-e * ln(num / den))
PowNeg(num, den, e) == ExpFP(- MulFP(e, LnRatio(num, den)))

\* a variant of Clamp255 without the Math.min(255, ...)
Clamp255_NoUpper(v) == Max(0, v)

\* Math.max(0, Math.min(255, v)) on a fixed-point v
Clamp255(v) == Max(0, Min(255 * FP, v))

\* Math.round of a non-negative fixed-point v
Round(v) == (v + FP \div 2) \div FP

-----------------------------------------------------------------------------
(* kelvinToRGB, src/main.js 22-54 *)

\* the coefficients of kelvinToRGB in fixed point (coefficient * 2^20)
RedCoef == 345714173
RedExp == 139675
GreenLogCoef == 104302696
GreenLogOffset == 168946112
GreenCoef == 302117992
GreenExp == 79183
BlueLogCoef == 145246369
BlueLogOffset == 319862649

\* red before rounding, in fixed point; temp = kelvin / 100
RedOf(kelvin) ==
    IF kelvin <= 6600 THEN 255 * FP
    ELSE Clamp255(MulFP(RedCoef, PowNeg(kelvin - 6000, 100, RedExp)))

GreenOf(kelvin) ==
    IF kelvin <= 6600
    THEN Clamp255(MulFP(GreenLogCoef, LnRatio(kelvin, 100)) - GreenLogOffset)
    ELSE Clamp255(MulFP(GreenCoef, PowNeg(kelvin - 6000, 100, GreenExp)))

\* a variant of BlueOf with temp > 66 for temp >= 66
BlueOf_StrictUpper(kelvin) ==
    IF kelvin > 6600 THEN 255 * FP
    ELSE IF kelvin <= 1900 THEN 0
    ELSE Clamp255(MulFP(BlueLogCoef, LnRatio(kelvin - 1000, 100)) - BlueLogOffset)

BlueOf(kelvin) ==
    IF kelvin >= 6600 THEN 255 * FP
    ELSE IF kelvin <= 1900 THEN 0
    ELSE Clamp255(MulFP(BlueLogCoef, LnRatio(kelvin - 1000, 100)) - BlueLogOffset)

\* kelvinToRGB(kelvin) for an integer kelvin >= 1
kelvinToRGB(kelvin) ==
    [r |-> Round(RedOf(kelvin)), g |-> Round(GreenOf(kelvin)),
     b |-> Round(BlueOf(kelvin))]

-----------------------------------------------------------------------------
(* The filter state and the render directive *)

\* const modes, src/main.js 15-20
ModeNames == {"day", "sunset", "night", "sleep"}

modes ==
    [m \in ModeNames |->
        CASE m = "day"    -> [temperature |-> 6500, brightness |-> 100]
          [] m = "sunset" -> [temperature |-> 4500, brightness |-> 90]
          [] m = "night"  -> [temperature |-> 3400, brightness |-> 80]
          [] m = "sleep"  -> [temperature |-> 1900, brightness |-> 60]]

\* mode names a renderer can send on 'set-mode': the four presets and a name
\* that is no key of modes (modes[mode] is undefined)
ModeInputs == ModeNames \cup {"bogus"}

\* values a renderer can send on 'set-temperature': below the 1000..40000
\* domain, its two ends, the day preset's value, and above the domain
TemperatureInputs == {500, 1000, 6500, 40000}

\* values a renderer can send on 'set-brightness': the ends of 0..100 and a
\* value above it
BrightnessInputs == {0, 100, 150}

\* let settings, src/main.js 8-12
InitialSettings == [temperature |-> 3400, brightness |-> 80, mode |-> "night"]

\* the denominator of every opacity of the model: opacity = numerator / 65000
OpacityDen == 65000

\* 0.6, the cap of Math.min(0.6, opacity): 0.6 * 65000
OpacityCap == 39000

\* a variant of RawOpacity with the temperature term subtracted
RawOpacity_WrongSign(s) == 325 * (100 - s.brightness) - 3 * (6500 - s.temperature)

\* (100 - brightness) / 100 * 0.5 + (1 - temperature / 6500) * 0.3,
\* times OpacityDen: 65000 * 0.5 / 100 = 325 and 65000 * 0.3 / 6500 = 3
RawOpacity(s) == 325 * (100 - s.brightness) + 3 * (6500 - s.temperature)

\* a variant of CappedOpacity that also clamps at 0
CappedOpacity_ClampsBelow(s) == Max(0, Min(OpacityCap, RawOpacity(s)))

\* a variant of CappedOpacity without the Math.min
CappedOpacity_NoCap(s) == RawOpacity(s)

\* Math.min(0.6, opacity)
CappedOpacity(s) == Min(OpacityCap, RawOpacity(s))

\* the directive updateFilter sends when the filter is off
InactiveDirective == [r |-> 255, g |-> 255, b |-> 255, opacity |-> 0]

\* every temperature settings can hold: the start value, the presets and
\* the values 'set-temperature' carries
Temperatures ==
    {InitialSettings.temperature} \cup {modes[m].temperature : m \in ModeNames}
        \cup TemperatureInputs

\* kelvinToRGB on the temperatures of the model, computed once
rgbOf == [k \in Temperatures |-> kelvinToRGB(k)]

\* the directive updateFilter sends when the filter is on
ActiveDirective(s) ==
    LET rgb == rgbOf[s.temperature]
    IN  [r |-> rgb.r, g |-> rgb.g, b |-> rgb.b, opacity |-> CappedOpacity(s)]

\* a variant of Directive without the early return for the inactive filter
Directive_IgnoresFlag(s, active) == ActiveDirective(s)

\* the object updateFilter sends on 'update-filter'
Directive(s, active) ==
    IF ~active THEN InactiveDirective ELSE ActiveDirective(s)

\* the FilterState: settings and isFilterActive together
FilterState(s, active) ==
    [temperature |-> s.temperature, brightness |-> s.brightness,
     mode |-> s.mode, active |-> active]

State == FilterState(settings, isFilterActive)

\* { ...settings, isActive: isFilterActive }
SettingsPayload(s, active) ==
    [temperature |-> s.temperature, brightness |-> s.brightness,
     mode |-> s.mode, isActive |-> active]

-----------------------------------------------------------------------------
(* Windows and tray *)

\* createOverlayWindows: one new window per display, nothing sent to it yet
RECURSIVE NewOverlays(_)
NewOverlays(n) ==
    IF n = 0 THEN <<>>
    ELSE Append(NewOverlays(n - 1),
                [display |-> n, destroyed |-> FALSE, painted |-> <<>>])

\* the windows of ws that are not destroyed
RECURSIVE Live(_)
Live(ws) ==
    IF ws = <<>> THEN 0
    ELSE (IF ws[1].destroyed THEN 0 ELSE 1) + Live(Tail(ws))

\* a variant of ClosedByCreate: the old overlays are dropped without close()
ClosedByCreate_None(ws) == 0

\* the number of windows createOverlayWindows closes: every window of the
\* list that is not destroyed, src/main.js 58-60
ClosedByCreate(ws) == Live(ws)

\* the overlay windows after updateFilter: every window that is not destroyed
\* has been sent the directive
Painted(ws, s, active) ==
    [i \in DOMAIN ws |->
        IF ws[i].destroyed THEN ws[i]
        ELSE [ws[i] EXCEPT !.painted = <<Directive(s, active)>>]]

\* the 'update-filter' messages of one updateFilter call, in sending order
RECURSIVE Sent(_, _, _)
Sent(ws, s, active) ==
    IF ws = <<>> THEN <<>>
    ELSE IF ws[1].destroyed THEN Sent(Tail(ws), s, active)
    ELSE <<Directive(s, active)>> \o Sent(Tail(ws), s, active)

\* the label of the tray menu's first item, as createTray builds it
\* ("Filter Active" stands for the checkmarked label)
ToggleLabel(active) == IF active THEN "Filter Active" ELSE "Filter Off"

\* an event and its argument
Op(name, mode, value) == [name |-> name, mode |-> mode, value |-> value]

-----------------------------------------------------------------------------
(* Initial state: the module has been loaded, app is not ready yet *)

Loaded ==
    /\ phase = "loaded"
    /\ settings = InitialSettings
    /\ isFilterActive = FALSE
    /\ displays \in 1..MaxDisplays
    /\ overlayWindows = <<>>
    /\ openOverlays = 0
    /\ mainWindow = "null"
    /\ trayLabel = "none"
    /\ emitted = <<>>
    /\ notified = <<>>
    /\ lastError = "none"
    /\ lastOp = Op("load", "", 0)
    /\ pre = FilterState(InitialSettings, FALSE)
    /\ hist = <<>>

\* kelvinArg and rgbCalls are the argument and the results of the calls of
\* kelvinToRGB that SpecRGB makes; the program's own calls are in updateFilter
Init ==
    /\ Loaded
    /\ kelvinArg = InitialSettings.temperature
    /\ rgbCalls = <<>>

-----------------------------------------------------------------------------
(* The handlers.  Each action is one run of one handler of the main        *)
(* process; lastOp and pre record the event and the FilterState before it, *)
(* emitted and notified the messages the handler sent.                     *)

Record(op) ==
    /\ lastOp' = op
    /\ pre' = State

\* a variant of updateFilter that runs before the handler's assignments
updateFilter_Stale ==
    /\ overlayWindows' = Painted(overlayWindows, settings, isFilterActive)
    /\ emitted' = Sent(overlayWindows, settings, isFilterActive)

\* updateFilter(), src/main.js 126-150, on the state the handler has set
updateFilter ==
    /\ overlayWindows' = Painted(overlayWindows, settings', isFilterActive')
    /\ emitted' = Sent(overlayWindows, settings', isFilterActive')

\* a variant of ActiveAtReady: the ready handler leaves the flag off
ActiveAtReady_Off == FALSE

\* isFilterActive = true in the ready handler, src/main.js 305
ActiveAtReady == TRUE

\* app.whenReady().then(...), src/main.js 294-311: createOverlayWindows,
\* createMainWindow, createTray (with the flag still as loaded), then the
\* flag is set and updateFilter runs
Ready ==
    /\ phase = "loaded"
    /\ phase' = "ready"
    /\ mainWindow' = "open"
    /\ trayLabel' = ToggleLabel(isFilterActive)
    /\ isFilterActive' = ActiveAtReady
    /\ overlayWindows' = Painted(NewOverlays(displays), settings, isFilterActive')
    /\ openOverlays' = openOverlays - ClosedByCreate(overlayWindows) + displays
    /\ emitted' = Sent(NewOverlays(displays), settings, isFilterActive')
    /\ notified' = <<>>
    /\ lastError' = "none"
    /\ UNCHANGED <<settings, displays>>
    /\ Record(Op("ready", "", 0))

\* a variant of Toggled that only ever turns the filter on
Toggled_AlwaysOn(active) == TRUE

\* isFilterActive = !isFilterActive, src/main.js 270 and 192
Toggled(active) == ~active

\* the body shared by ipcMain.on('toggle-filter') and the tray item's click:
\* flip, updateFilter(), createTray()
toggleActive(name) ==
    /\ isFilterActive' = Toggled(isFilterActive)
    /\ UNCHANGED <<phase, settings, displays, mainWindow, openOverlays>>
    /\ updateFilter
    /\ trayLabel' = ToggleLabel(isFilterActive')
    /\ notified' = <<>>
    /\ lastError' = "none"
    /\ Record(Op(name, "", 0))

\* ipcMain.on('toggle-filter'), src/main.js 269-273; sent by the settings window
ToggleFilter ==
    /\ phase = "ready"
    /\ mainWindow = "open"
    /\ toggleActive("toggle-filter")

\* the click of the tray menu's first item, src/main.js 191-195
TrayToggle ==
    /\ phase = "ready"
    /\ toggleActive("tray-toggle")

\* a variant of WithTemperature that drops the preset label
WithTemperature_ResetsMode(s, value) ==
    [s EXCEPT !.temperature = value, !.mode = "custom"]

\* settings.temperature = value, src/main.js 276
WithTemperature(s, value) == [s EXCEPT !.temperature = value]

\* a variant of SetTemperature that turns the filter on, as applyMode does
SetTemperature_Activates(value) ==
    /\ phase = "ready"
    /\ mainWindow = "open"
    /\ settings' = WithTemperature(settings, value)
    /\ isFilterActive' = TRUE
    /\ updateFilter
    /\ notified' = <<>>
    /\ lastError' = "none"
    /\ UNCHANGED <<phase, displays, mainWindow, trayLabel, openOverlays>>
    /\ Record(Op("set-temperature", "", value))

\* ipcMain.on('set-temperature'), src/main.js 275-278
SetTemperature(value) ==
    /\ phase = "ready"
    /\ mainWindow = "open"
    /\ settings' = WithTemperature(settings, value)
    /\ isFilterActive' = isFilterActive
    /\ updateFilter
    /\ notified' = <<>>
    /\ lastError' = "none"
    /\ UNCHANGED <<phase, displays, mainWindow, trayLabel, openOverlays>>
    /\ Record(Op("set-temperature", "", value))

\* a variant of WithBrightness that clamps the value into 0..100
WithBrightness_Clamped(s, value) ==
    [s EXCEPT !.brightness = Max(0, Min(100, value))]

\* settings.brightness = value, src/main.js 281
WithBrightness(s, value) == [s EXCEPT !.brightness = value]

\* ipcMain.on('set-brightness'), src/main.js 280-283
SetBrightness(value) ==
    /\ phase = "ready"
    /\ mainWindow = "open"
    /\ settings' = WithBrightness(settings, value)
    /\ isFilterActive' = isFilterActive
    /\ updateFilter
    /\ notified' = <<>>
    /\ lastError' = "none"
    /\ UNCHANGED <<phase, displays, mainWindow, trayLabel, openOverlays>>
    /\ Record(Op("set-brightness", "", value))

\* a variant of PresetSettings that takes the brightness of the night preset
PresetSettings_NightBrightness(mode) ==
    [mode |-> mode, temperature |-> modes[mode].temperature,
     brightness |-> modes["night"].brightness]

\* the three assignments to settings of applyMode for a key of modes,
\* src/main.js 257-259
PresetSettings(mode) ==
    [mode |-> mode, temperature |-> modes[mode].temperature,
     brightness |-> modes[mode].brightness]

\* settings as applyMode leaves them when modes[mode] is undefined: line 257
\* has assigned the mode, line 258 throws a TypeError
SettingsAtThrow(s, mode) == [s EXCEPT !.mode = mode]

\* isFilterActive = true, src/main.js 260
ActiveAfterMode == TRUE

\* applyMode(mode), src/main.js 256-266
applyMode(mode, name) ==
    /\ IF mode \in DOMAIN modes
       THEN /\ settings' = PresetSettings(mode)
            /\ isFilterActive' = ActiveAfterMode
            /\ updateFilter
            /\ notified' = IF mainWindow = "open"
                           THEN <<SettingsPayload(settings', isFilterActive')>>
                           ELSE <<>>
            /\ lastError' = "none"
       ELSE /\ settings' = SettingsAtThrow(settings, mode)
            /\ lastError' = "TypeError"
            /\ emitted' = <<>>
            /\ notified' = <<>>
            /\ UNCHANGED <<isFilterActive, overlayWindows>>
    /\ UNCHANGED <<phase, displays, mainWindow, trayLabel, openOverlays>>
    /\ Record(Op(name, mode, 0))

\* ipcMain.on('set-mode'), src/main.js 285-287
SetMode(mode) ==
    /\ phase = "ready"
    /\ mainWindow = "open"
    /\ applyMode(mode, "set-mode")

\* the click of one of the tray menu's four preset items, src/main.js 198-213
TrayMode(mode) ==
    /\ phase = "ready"
    /\ applyMode(mode, "tray-mode")

\* a variant of GetSettings that also calls updateFilter()
GetSettings_Refreshes ==
    /\ phase = "ready"
    /\ mainWindow = "open"
    /\ notified' = <<SettingsPayload(settings, isFilterActive)>>
    /\ overlayWindows' = Painted(overlayWindows, settings, isFilterActive)
    /\ emitted' = Sent(overlayWindows, settings, isFilterActive)
    /\ lastError' = "none"
    /\ UNCHANGED <<phase, settings, isFilterActive, displays, openOverlays,
                   mainWindow, trayLabel>>
    /\ Record(Op("get-settings", "", 0))

\* ipcMain.on('get-settings'), src/main.js 289-291
GetSettings ==
    /\ phase = "ready"
    /\ mainWindow = "open"
    /\ notified' = <<SettingsPayload(settings, isFilterActive)>>
    /\ emitted' = <<>>
    /\ lastError' = "none"
    /\ UNCHANGED <<phase, settings, isFilterActive, displays, overlayWindows,
                   openOverlays, mainWindow, trayLabel>>
    /\ Record(Op("get-settings", "", 0))

\* createOverlayWindows(), src/main.js 56-124, as the handler of a display
\* change: the old windows are closed and dropped, new ones are created
DisplayChange(n, name) ==
    /\ phase = "ready"
    /\ displays' = n
    /\ overlayWindows' = NewOverlays(n)
    /\ openOverlays' = openOverlays - ClosedByCreate(overlayWindows) + n
    /\ emitted' = <<>>
    /\ notified' = <<>>
    /\ lastError' = "none"
    /\ UNCHANGED <<phase, settings, isFilterActive, mainWindow, trayLabel>>
    /\ Record(Op(name, "", 0))

\* screen.on('display-added', createOverlayWindows), src/main.js 309
DisplayAdded ==
    /\ displays < MaxDisplays
    /\ DisplayChange(displays + 1, "display-added")

\* screen.on('display-removed', createOverlayWindows), src/main.js 310
DisplayRemoved ==
    /\ displays > 1
    /\ DisplayChange(displays - 1, "display-removed")

\* showMainWindow(), src/main.js 233-254: from the tray's click, the
\* 'Settings...' item or app 'activate'
ShowMainWindow ==
    /\ phase = "ready"
    /\ mainWindow' = "open"
    /\ emitted' = <<>>
    /\ notified' = <<>>
    /\ lastError' = "none"
    /\ UNCHANGED <<phase, settings, isFilterActive, displays, overlayWindows,
                   openOverlays, trayLabel>>
    /\ Record(Op("show-main-window", "", 0))

\* mainWindow.on('closed'), src/main.js 174-176
MainWindowClosed ==
    /\ phase = "ready"
    /\ mainWindow = "open"
    /\ mainWindow' = "null"
    /\ emitted' = <<>>
    /\ notified' = <<>>
    /\ lastError' = "none"
    /\ UNCHANGED <<phase, settings, isFilterActive, displays, overlayWindows,
                   openOverlays, trayLabel>>
    /\ Record(Op("main-window-closed", "", 0))

\* app.quit() and app.on('before-quit'), src/main.js 222 and 324-328: every
\* overlay is closed, then the process ends
Quit ==
    /\ phase = "ready"
    /\ phase' = "quit"
    /\ overlayWindows' = [i \in DOMAIN overlayWindows |->
                            [overlayWindows[i] EXCEPT !.destroyed = TRUE]]
    /\ openOverlays' = openOverlays - Live(overlayWindows)
    /\ mainWindow' = "null"
    /\ emitted' = <<>>
    /\ notified' = <<>>
    /\ lastError' = "none"
    /\ UNCHANGED <<settings, isFilterActive, displays, trayLabel>>
    /\ Record(Op("quit", "", 0))

-----------------------------------------------------------------------------
(* Specifications *)

\* no call of kelvinToRGB outside updateFilter is followed
NoCall == UNCHANGED <<kelvinArg, rgbCalls>>

\* every handler, any number of events: hist is not kept
Idle == UNCHANGED hist /\ NoCall

Next ==
    \/ Ready /\ Idle
    \/ ToggleFilter /\ Idle
    \/ TrayToggle /\ Idle
    \/ (\E v \in TemperatureInputs : SetTemperature(v)) /\ Idle
    \/ (\E v \in BrightnessInputs : SetBrightness(v)) /\ Idle
    \/ (\E m \in ModeInputs : SetMode(m)) /\ Idle
    \/ (\E m \in ModeNames : TrayMode(m)) /\ Idle
    \/ GetSettings /\ Idle
    \/ DisplayAdded /\ Idle
    \/ DisplayRemoved /\ Idle
    \/ ShowMainWindow /\ Idle
    \/ MainWindowClosed /\ Idle
    \/ Quit /\ Idle

Spec == Init /\ [][Next]_vars

\* the same handlers, with hist the sequence of events since start-up, for
\* runs of at most MaxSeq events after the ready handler
Logged == Len(hist) < MaxSeq /\ hist' = Append(hist, lastOp') /\ NoCall

NextSeq ==
    \/ Ready /\ Idle
    \/ ToggleFilter /\ Logged
    \/ TrayToggle /\ Logged
    \/ (\E v \in TemperatureInputs : SetTemperature(v)) /\ Logged
    \/ (\E v \in BrightnessInputs : SetBrightness(v)) /\ Logged
    \/ (\E m \in ModeInputs : SetMode(m)) /\ Logged
    \/ (\E m \in ModeNames : TrayMode(m)) /\ Logged
    \/ GetSettings /\ Logged
    \/ DisplayAdded /\ Logged
    \/ DisplayRemoved /\ Logged
    \/ ShowMainWindow /\ Logged
    \/ MainWindowClosed /\ Logged
    \/ Quit /\ Logged

SpecSeq == Init /\ [][NextSeq]_vars

\* kelvinToRGB as a function of its argument: every fifty kelvin from 100
\* to 40000, the kelvins next to the branch boundaries temp = 19 and
\* temp = 66, and one value far above the 1000..40000 domain
KelvinInputs ==
    {50 * i : i \in 2..800}
        \cup {1899, 1901, 6599, 6601, 100000}

InitRGB ==
    /\ Loaded
    /\ kelvinArg \in KelvinInputs
    /\ rgbCalls = <<>>

\* one call kelvinToRGB(kelvinArg), src/main.js 22-54
Convert ==
    /\ Len(rgbCalls) < MaxCalls
    /\ rgbCalls' = Append(rgbCalls, kelvinToRGB(kelvinArg))
    /\ UNCHANGED <<phase, settings, isFilterActive, displays, overlayWindows,
                   openOverlays, mainWindow, trayLabel, emitted, notified,
                   lastError, lastOp, pre, hist, kelvinArg>>

NextRGB == Convert

SpecRGB == InitRGB /\ [][NextRGB]_vars

-----------------------------------------------------------------------------
(* Properties *)

ModeOps == {"set-mode", "tray-mode"}

ToggleOps == {"toggle-filter", "tray-toggle"}

\* every directive sent by the last handler satisfies P
AllEmitted(P(_)) == \A i \in DOMAIN emitted : P(emitted[i])

\* C1 (as claimed): applyMode with a name that is none of day, sunset, night,
\* sleep fails with an error, and the FilterState after the failed call is
\* the FilterState before it.
C1_InvalidModeLeavesStateUnchanged ==
    (lastOp.name \in ModeOps /\ lastOp.mode \notin {"day", "sunset", "night", "sleep"})
        => (lastError # "none" /\ State = pre)

\* C2: after applyMode(m) for one of the four presets, whatever the state
\* before, mode = m, temperature and brightness are m's preset pair and the
\* filter is active.
C2_ApplyModeSetsPreset ==
    lastOp.name \in ModeOps =>
        /\ lastOp.mode = "day" =>
             State = [temperature |-> 6500, brightness |-> 100,
                      mode |-> "day", active |-> TRUE]
        /\ lastOp.mode = "sunset" =>
             State = [temperature |-> 4500, brightness |-> 90,
                      mode |-> "sunset", active |-> TRUE]
        /\ lastOp.mode = "night" =>
             State = [temperature |-> 3400, brightness |-> 80,
                      mode |-> "night", active |-> TRUE]
        /\ lastOp.mode = "sleep" =>
             State = [temperature |-> 1900, brightness |-> 60,
                      mode |-> "sleep", active |-> TRUE]

\* C2 witness: applyMode('sleep') has run on an inactive state that held
\* temperature 40000 and brightness 150.
C2_Witness ==
    /\ lastOp = Op("set-mode", "sleep", 0)
    /\ pre.active = FALSE
    /\ pre.temperature = 40000
    /\ pre.brightness = 150
    /\ State = [temperature |-> 1900, brightness |-> 60,
                mode |-> "sleep", active |-> TRUE]

\* C3 (as claimed): after the ready handler and before any user operation
\* the FilterState is 3400 / 80 / night with active = false.
C3_StartsInactive ==
    lastOp.name = "ready" =>
        State = [temperature |-> 3400, brightness |-> 80,
                 mode |-> "night", active |-> FALSE]

\* C3 (amended): the FilterState is 3400 / 80 / night with active = false
\* only until the ready handler runs; once it has run, and before any user
\* operation, the FilterState is 3400 / 80 / night with active = true.
C3_StartsActive ==
    /\ phase = "loaded" =>
         State = [temperature |-> 3400, brightness |-> 80,
                  mode |-> "night", active |-> FALSE]
    /\ lastOp.name = "ready" =>
         State = [temperature |-> 3400, brightness |-> 80,
                  mode |-> "night", active |-> TRUE]

\* C3 witness: the ready handler has just run and the filter is on.
C3_Witness ==
    /\ phase = "ready"
    /\ lastOp.name = "ready"
    /\ pre.active = FALSE
    /\ isFilterActive

\* the flag went from off to on, or from on to off, in the last step
TurnedOn == ~pre.active /\ isFilterActive

TurnedOff == pre.active /\ ~isFilterActive

\* C4 (as claimed): the flag turns on only in a toggleActive or applyMode
\* step, turns off only in a toggleActive step, and no other step (the
\* setters, getState, display changes, lifecycle events) changes it.
C4_ActiveChangesOnlyByToggleOrMode ==
    /\ TurnedOn => lastOp.name \in ToggleOps \cup ModeOps
    /\ TurnedOff => lastOp.name \in ToggleOps
    /\ lastOp.name \notin ToggleOps \cup ModeOps => isFilterActive = pre.active

\* C4 (amended): the flag turns on only in a toggleActive step, an applyMode
\* step or the ready handler, turns off only in a toggleActive step, and the
\* setters, getState, display changes, window events and quit never change it.
C4_ActiveChangesOnlyByToggleModeOrReady ==
    /\ TurnedOn => lastOp.name \in ToggleOps \cup ModeOps \cup {"ready"}
    /\ TurnedOff => lastOp.name \in ToggleOps
    /\ lastOp.name \notin ToggleOps \cup ModeOps \cup {"ready"}
         => isFilterActive = pre.active

\* C4 witness: a tray preset click has turned the filter on after a toggle
\* had turned it off.
C4_Witness ==
    /\ lastOp.name = "tray-mode"
    /\ TurnedOn

\* C5 (as claimed): from the state after start-up, toggleActive then
\* setTemperature(6500) leaves the filter active at 6500 / 80 / night and the
\* directive sent by setTemperature has opacity 0.1.
C5_ToggleThenSetTemperatureActive ==
    (/\ Len(hist) = 2
     /\ hist[1].name \in ToggleOps
     /\ hist[2] = Op("set-temperature", "", 6500))
        => /\ State = [temperature |-> 6500, brightness |-> 80,
                       mode |-> "night", active |-> TRUE]
           /\ AllEmitted(LAMBDA d : 10 * d.opacity = 65000)

\* C5 (amended): from the state after start-up, which is active,
\* toggleActive then setTemperature(6500) leaves 6500 / 80 / night with the
\* filter inactive, and the directive sent by setTemperature is the no-op
\* directive; setTemperature(6500) sends opacity 0.1 when it is the first
\* call after start-up, the filter still being active.
C5_ToggleThenSetTemperatureInactive ==
    /\ (/\ Len(hist) = 2
        /\ hist[1].name \in ToggleOps
        /\ hist[2] = Op("set-temperature", "", 6500))
         => /\ State = [temperature |-> 6500, brightness |-> 80,
                        mode |-> "night", active |-> FALSE]
            /\ AllEmitted(LAMBDA d : d = [r |-> 255, g |-> 255, b |-> 255,
                                          opacity |-> 0])
    /\ hist = <<Op("set-temperature", "", 6500)>>
         => /\ State = [temperature |-> 6500, brightness |-> 80,
                        mode |-> "night", active |-> TRUE]
            /\ AllEmitted(LAMBDA d : 10 * d.opacity = 65000)

\* C5 witness: the two calls have run after start-up and setTemperature has
\* sent a directive to an overlay.
C5_Witness ==
    /\ hist = <<Op("toggle-filter", "", 0), Op("set-temperature", "", 6500)>>
    /\ Len(emitted) >= 1

\* C6: every directive sent while the filter is off is exactly
\* {r: 255, g: 255, b: 255, opacity: 0}, whatever the settings are.
C6_InactiveDirectiveIsNoOp ==
    ~isFilterActive =>
        AllEmitted(LAMBDA d : d = [r |-> 255, g |-> 255, b |-> 255, opacity |-> 0])

\* C6 witness: set-temperature has stored 40000 while the filter is off and
\* has sent a directive.
C6_Witness ==
    /\ ~isFilterActive
    /\ lastOp = Op("set-temperature", "", 40000)
    /\ settings.brightness = 150
    /\ Len(emitted) >= 1

\* C7: every directive sent while the filter is on has opacity
\* min(0.6, (100 - brightness)/100 * 0.5 + (1 - temperature/6500) * 0.3) of
\* the current settings, with no clamp below: 0 after applyMode('day'),
\* 0.2 + 0.3 * 4600/6500 after applyMode('sleep').  In units of 1/65000,
\* times 20: 20 * opacity = min(780000, 6500 * (100 - b) + 60 * (6500 - t));
\* 65000 * (0.2 + 0.3 * 4600/6500) = 13000 + 3 * 4600.
C7_ActiveOpacityFormula ==
    isFilterActive =>
        /\ AllEmitted(LAMBDA d :
              LET raw == 6500 * (100 - settings.brightness)
                           + 60 * (6500 - settings.temperature)
              IN  20 * d.opacity = IF raw < 780000 THEN raw ELSE 780000)
        /\ (lastOp.name \in ModeOps /\ lastOp.mode = "day")
             => AllEmitted(LAMBDA d : d.opacity = 0)
        /\ (lastOp.name \in ModeOps /\ lastOp.mode = "sleep")
             => AllEmitted(LAMBDA d : d.opacity = 13000 + 3 * 4600)

\* C7 witness: a directive with a negative opacity has been sent while the
\* filter is on (temperature 40000, brightness 100).
C7_Witness ==
    /\ isFilterActive
    /\ settings.temperature = 40000
    /\ settings.brightness = 100
    /\ Len(emitted) >= 1
    /\ emitted[1].opacity < 0

\* C8: after any sequence of toggles, setters and applyMode calls, every
\* directive sent while the filter is on has opacity <= 0.6 (39000 / 65000).
C8_OpacityUpperBound ==
    isFilterActive => AllEmitted(LAMBDA d : 10 * d.opacity <= 6 * 65000)

\* C8 witness: the filter is on with temperature 500 and brightness 0, where
\* the formula gives more than 0.6, and a directive has been sent.
C8_Witness ==
    /\ isFilterActive
    /\ settings.temperature = 500
    /\ settings.brightness = 0
    /\ Len(emitted) >= 1
    /\ emitted[1].opacity = 39000

InDomain(s) == s.temperature \in 1000..40000 /\ s.brightness \in 0..100

\* C9 (as claimed): with temperature in 1000..40000 and brightness in
\* 0..100, every directive sent has opacity between 0.0 and 0.6.
C9_OpacityWithinRange ==
    InDomain(settings) =>
        AllEmitted(LAMBDA d : 0 <= d.opacity /\ 10 * d.opacity <= 6 * 65000)

\* C9 (amended): with temperature in 1000..6500 and brightness in 0..100,
\* every directive sent has opacity between 0.0 and 0.6; with temperature in
\* 1000..40000 the opacity is at most 0.6 (and negative for some of them).
C9_OpacityWithinRangeUpTo6500 ==
    InDomain(settings) =>
        /\ AllEmitted(LAMBDA d : 10 * d.opacity <= 6 * 65000)
        /\ settings.temperature <= 6500 => AllEmitted(LAMBDA d : 0 <= d.opacity)

\* C9 witness: the filter is on at temperature 1000 and brightness 100 and
\* a directive has been sent.
C9_Witness ==
    /\ isFilterActive
    /\ settings.temperature = 1000
    /\ settings.brightness = 100
    /\ Len(emitted) >= 1

\* C10: set-temperature changes the temperature to its argument and nothing
\* else of the FilterState, set-brightness the brightness and nothing else;
\* neither raises an error, whatever the value, and neither touches the
\* mode label.
C10_SettersChangeOneField ==
    /\ lastOp.name = "set-temperature" =>
         /\ State = [pre EXCEPT !.temperature = lastOp.value]
         /\ lastError = "none"
    /\ lastOp.name = "set-brightness" =>
         /\ State = [pre EXCEPT !.brightness = lastOp.value]
         /\ lastError = "none"

\* C10 witness: set-brightness(150) has run on the sleep preset, leaving a
\* pair that is no preset under the label sleep.
C10_Witness ==
    /\ lastOp = Op("set-brightness", "", 150)
    /\ pre = [temperature |-> 1900, brightness |-> 60, mode |-> "sleep",
              active |-> TRUE]
    /\ State = [temperature |-> 1900, brightness |-> 150, mode |-> "sleep",
                active |-> TRUE]

MutatingOps == ToggleOps \cup ModeOps \cup {"set-temperature", "set-brightness"}

\* C11: a toggle negates the active flag and leaves temperature, brightness
\* and mode as they were; so the second of two consecutive toggles restores
\* the FilterState before the first, and the directive it sends is the one
\* derived from that state.
C11_ToggleStep ==
    /\ lastOp'.name \in ToggleOps =>
         State' = [State EXCEPT !.active = ~State.active]
    /\ (lastOp.name \in ToggleOps /\ lastOp'.name \in ToggleOps) =>
         /\ State' = pre
         /\ \A i \in DOMAIN emitted' : emitted'[i] = Directive(pre, pre.active)

C11_TogglesFlipOnlyActive == [][C11_ToggleStep]_vars

\* C11 witness: the tray's toggle item has turned off a filter that held
\* temperature 40000 and brightness 150 under the label sleep.
C11_Witness ==
    /\ lastOp.name = "tray-toggle"
    /\ pre = [temperature |-> 40000, brightness |-> 150, mode |-> "sleep",
              active |-> TRUE]
    /\ State = [temperature |-> 40000, brightness |-> 150, mode |-> "sleep",
                active |-> FALSE]
    /\ Len(emitted) >= 1

\* C12: a mutating handler that does not throw (toggle, set-temperature,
\* set-brightness, applyMode) sends, before it returns, exactly one
\* directive to each live overlay, derived from the state it has just set.
C12_MutationEmitsCurrentDirective ==
    (lastOp.name \in MutatingOps /\ lastError = "none") =>
        /\ Len(emitted) = Live(overlayWindows)
        /\ AllEmitted(LAMBDA d : d = Directive(settings, isFilterActive))
        /\ \A i \in DOMAIN overlayWindows :
             ~overlayWindows[i].destroyed =>
                overlayWindows[i].painted = <<Directive(settings, isFilterActive)>>

\* C12 witness: a tray click on Sleep, on a state that held temperature
\* 40000, has sent the sleep directive to each of two overlays.
C12_Witness ==
    /\ lastOp = Op("tray-mode", "sleep", 0)
    /\ pre.temperature = 40000
    /\ Len(emitted) = 2
    /\ emitted[1].opacity = 13000 + 3 * 4600
    /\ emitted[2] = emitted[1]

\* C13 (as claimed): after every mutating call, an open settings window is
\* sent 'settings-updated' with the FilterState as it now is.
C13_SettingsWindowNotified ==
    (lastOp.name \in MutatingOps /\ lastError = "none" /\ mainWindow = "open") =>
        notified = <<[temperature |-> settings.temperature,
                      brightness |-> settings.brightness,
                      mode |-> settings.mode, isActive |-> isFilterActive]>>

\* a settings object whose mode is no key of modes holds the one assignment
\* an applyMode call made before it threw: its mode comes from that call, its
\* temperature and brightness from before it
PartlyApplied(p) == p.mode \notin {"day", "sunset", "night", "sleep"}

\* C14 (as claimed): no reader sees a FilterState with only part of one
\* operation's assignments: every 'settings-updated' payload (reply or
\* notification) is the current state and holds no partly applied
\* operation, and every directive is derived from the current state.
C14_NoReaderSeesPartialUpdate ==
    /\ \A i \in DOMAIN notified :
         /\ notified[i] = SettingsPayload(settings, isFilterActive)
         /\ ~PartlyApplied(notified[i])
    /\ AllEmitted(LAMBDA d : d = Directive(settings, isFilterActive))

\* C15: 'get-settings' replies with the temperature, brightness, mode and
\* active flag as they are, changes none of them and sends no directive.
C15_GetSettingsReadsOnly ==
    lastOp.name = "get-settings" =>
        /\ notified = <<[temperature |-> settings.temperature,
                         brightness |-> settings.brightness,
                         mode |-> settings.mode, isActive |-> isFilterActive]>>
        /\ State = pre
        /\ emitted = <<>>

\* C15 witness: 'get-settings' has replied while the filter was off with
\* brightness 150 under the label sleep.
C15_Witness ==
    /\ lastOp.name = "get-settings"
    /\ ~isFilterActive
    /\ settings.mode = "sleep"
    /\ settings.brightness = 150
    /\ Len(notified) = 1
    /\ notified[1].brightness = 150
    /\ notified[1].isActive = FALSE

C17_ConstantBranches ==
    \A i \in DOMAIN rgbCalls :
        /\ kelvinArg <= 66 * 100 => rgbCalls[i].r = 255
        /\ kelvinArg <= 19 * 100 => rgbCalls[i].b = 0
        /\ kelvinArg >= 66 * 100 => rgbCalls[i].b = 255
        /\ kelvinArg = 1900 => (rgbCalls[i].b = 0 /\ rgbCalls[i].r = 255)

\* C17 witness: kelvinToRGB(1900) and its result.
C17_Witness ==
    /\ kelvinArg = 1900
    /\ Len(rgbCalls) >= 1
    /\ rgbCalls[1].b = 0
    /\ rgbCalls[1].r = 255

\* C18 (as claimed): every overlay window that exists has been sent the
\* directive derived from the current FilterState, also right after a
\* display change has created it.
C18_EveryOverlayPainted ==
    phase = "ready" =>
        \A i \in DOMAIN overlayWindows :
            ~overlayWindows[i].destroyed =>
                overlayWindows[i].painted = <<Directive(settings, isFilterActive)>>

\* C19 (as claimed): once the tray exists, the label of its toggle item is
\* the checkmarked 'Filter Active' exactly when isFilterActive is true and
\* 'Filter Off' exactly when it is false.
C19_TrayLabelAgrees ==
    phase = "ready" =>
        /\ isFilterActive => trayLabel = "Filter Active"
        /\ ~isFilterActive => trayLabel = "Filter Off"

\* C20: after start-up and after every display-added or display-removed
\* event, overlayWindows holds exactly one live overlay per attached
\* display, and no overlay created earlier is still open.
C20_OneOverlayPerDisplay ==
    lastOp.name \in {"ready", "display-added", "display-removed"} =>
        /\ Len(overlayWindows) = displays
        /\ \A i \in DOMAIN overlayWindows :
             /\ overlayWindows[i].display = i
             /\ ~overlayWindows[i].destroyed
        /\ openOverlays = displays

\* C20 witness: a display has been removed, leaving one display, one
\* overlay in the list and one overlay window open.
C20_Witness ==
    /\ lastOp.name = "display-removed"
    /\ displays = 1
    /\ Len(overlayWindows) = 1
    /\ openOverlays = 1

====
